---- MODULE Spec2Model ----
(***************************************************************************)
(* Model of server.js (house-hunt-agent): the three request handlers       *)
(*   POST /auth/send-otp   (IssueCode)                                     *)
(*   POST /auth/check-otp  (VerifyCode)                                    *)
(*   POST /agent/message   (extract -> merge -> follow-up question)        *)
(* over the three tables buyer, otp_code and saved_search.  Every          *)
(* `await` of a handler is one step of the model, so that a handler can    *)
(* fail (a rejected query or SMS call lands in its catch block) or be      *)
(* interleaved with another handler between any two of its queries.        *)
(***************************************************************************)
EXTENDS Integers, Sequences, FiniteSets, TLC

(***************************************************************************)
(* Bounds of the model.                                                    *)
(***************************************************************************)
NProc == 2          \* request slots (requests that can be in flight)
MaxReqs == 3        \* requests per behaviour, over all three endpoints
MaxOtpReqs == 3     \* requests per behaviour, send-otp and check-otp alone
MaxMsgs == 3        \* requests per behaviour, /agent/message alone
MaxRepeatReqs == 4  \* requests per behaviour of a client that keeps to one phone
MaxCalls == 2       \* calls of naiveExtractCriteria on its own for one text
MaxConcReqs == 3    \* requests per behaviour, OTP calls overlapping
MaxConcMsgs == 3    \* requests per behaviour, message calls overlapping
MaxTicks == 2       \* clock ticks per behaviour
TickMinutes == 5    \* minutes per clock tick
RandGrid == 2       \* Math.random() returns k / RandGrid, k in 0..RandGrid-1
RandBits == 6       \* or k / 2^RandBits, k in 0..2^RandBits-1, when called on its own,
RandTop == 4        \*   or one of the RandTop largest doubles below 1

(***************************************************************************)
(* Program constants.                                                      *)
(***************************************************************************)
OtpTtlMinutes == 10     \* nowPlus(10)
CodeBase == 100000      \* Math.floor(100000 + Math.random() * 900000)
CodeSpan == 900000
PriceMinDigits == 3     \* \d{3,}

(***************************************************************************)
(* Text.  A string is a sequence of one-character strings, so that the     *)
(* regular expressions of naiveExtractCriteria are matched character by    *)
(* character, as String.prototype.match does.                              *)
(***************************************************************************)
Digits == <<"0", "1", "2", "3", "4", "5", "6", "7", "8", "9">>

IsDigit(c) == \E i \in 1..10 : Digits[i] = c

DigitVal(c) == (CHOOSE i \in 1..10 : Digits[i] = c) - 1

\* \s of the regular expressions (the texts of the model use the blank only)
IsSpace(c) == c = " "

UpperLetters == <<"S", "T", "E", "R", "L", "I", "N", "G", "O", "W", "M", "B", "D", "A", "H">>

LowerLetters == <<"s", "t", "e", "r", "l", "i", "n", "g", "o", "w", "m", "b", "d", "a", "h">>

\* the /i flag: characters are compared after case folding
Fold(c) ==
    IF \E i \in 1..Len(UpperLetters) : UpperLetters[i] = c
    THEN LowerLetters[CHOOSE i \in 1..Len(UpperLetters) : UpperLetters[i] = c]
    ELSE c

\* the literal w (lower case) occurs in t at position i, up to case when fold
LitAt(t, i, w, fold) ==
    /\ i >= 1
    /\ i + Len(w) - 1 <= Len(t)
    /\ \A k \in 1..Len(w) :
          (IF fold THEN Fold(t[i + k - 1]) ELSE t[i + k - 1]) = w[k]

\* first position at or after i that holds no digit: \d+ and \d{3,} are greedy
RECURSIVE DigitsEnd(_, _)
DigitsEnd(t, i) ==
    IF i <= Len(t) /\ IsDigit(t[i]) THEN DigitsEnd(t, i + 1) ELSE i

\* first position at or after i that holds no white space: \s* is greedy
RECURSIVE SpaceEnd(_, _)
SpaceEnd(t, i) ==
    IF i <= Len(t) /\ IsSpace(t[i]) THEN SpaceEnd(t, i + 1) ELSE i

\* unary plus on a captured run of digits: +m[1]
RECURSIVE ToNumber(_)
ToNumber(s) ==
    IF s = <<>> THEN 0
    ELSE 10 * ToNumber(SubSeq(s, 1, Len(s) - 1)) + DigitVal(s[Len(s)])

\* String(n) of a non-negative integer: its decimal digits
RECURSIVE ToStr(_)
ToStr(n) ==
    IF n < 10 THEN <<Digits[n + 1]>>
    ELSE ToStr(n \div 10) \o <<Digits[(n % 10) + 1]>>

NoMatch == <<>>

\* /\$?(\d{3,})\s*-\s*\$?(\d{3,})/ tried at position i: the two captures, or NoMatch
PriceAt(t, i) ==
    LET a == IF i <= Len(t) /\ t[i] = "$" THEN i + 1 ELSE i
        b == DigitsEnd(t, a)
        c == SpaceEnd(t, b)
        d == SpaceEnd(t, c + 1)
        e == IF d <= Len(t) /\ t[d] = "$" THEN d + 1 ELSE d
        f == DigitsEnd(t, e)
    IN  IF /\ b - a >= PriceMinDigits
           /\ c <= Len(t) /\ t[c] = "-"
           /\ f - e >= PriceMinDigits
        THEN <<SubSeq(t, a, b - 1), SubSeq(t, e, f - 1)>>
        ELSE NoMatch

\* /(\d+)\s*(w1|w2)/i tried at position i: the first capture, or NoMatch
CountAt(t, i, w1, w2) ==
    LET b == DigitsEnd(t, i)
        c == SpaceEnd(t, b)
    IN  IF b > i /\ (LitAt(t, c, w1, TRUE) \/ LitAt(t, c, w2, TRUE))
        THEN <<SubSeq(t, i, b - 1)>>
        ELSE NoMatch

ZoneNames ==
    << <<"s", "t", "e", "r", "l", "i", "n", "g", "t", "o", "n">>,
       <<"w", "e", "s", "t", " ", "m", "o", "n", "r", "o", "e">>,
       <<"m", "o", "n", "r", "o", "e">> >>

\* /(Sterlington|West Monroe|Monroe)/i tried at position i: the capture (the
\* text as typed), or NoMatch; the alternatives are tried in order
ZoneAt(t, i) ==
    IF \E z \in 1..Len(ZoneNames) : LitAt(t, i, ZoneNames[z], TRUE)
    THEN LET z == CHOOSE z \in 1..Len(ZoneNames) :
                     /\ LitAt(t, i, ZoneNames[z], TRUE)
                     /\ \A y \in 1..(z - 1) : ~LitAt(t, i, ZoneNames[y], TRUE)
         IN  <<SubSeq(t, i, i + Len(ZoneNames[z]) - 1)>>
    ELSE NoMatch

\* text.match(re) without /g, given the outcome at of trying re at each
\* position of the text: the match at the leftmost position that has one
FirstMatch(at) ==
    IF \E i \in DOMAIN at : at[i] # NoMatch
    THEN at[CHOOSE i \in DOMAIN at :
               /\ at[i] # NoMatch
               /\ \A j \in 1..(i - 1) : at[j] = NoMatch]
    ELSE NoMatch

BedAt(t, i) == CountAt(t, i, <<"b", "e", "d">>, <<"b", "r">>)

BathAt(t, i) == CountAt(t, i, <<"b", "a", "t", "h">>, <<"b", "a">>)

(***************************************************************************)
(* Criteria: a JavaScript object, modelled as a function from the keys it  *)
(* has to their values.                                                    *)
(***************************************************************************)
\* EmptyCriteria with a placeholder: const out = { zones: [] }
PlaceholderCriteria == [k \in {"zones"} |-> <<>>]

\* const out = {}
EmptyCriteria == [k \in {} |-> 0]

\* out.k = v
Put(out, k, v) == [x \in DOMAIN out \cup {k} |-> IF x = k THEN v ELSE out[x]]

naiveExtractCriteria(text) ==
    LET mPrice == FirstMatch([i \in 1..Len(text) |-> PriceAt(text, i)])
        mBeds == FirstMatch([i \in 1..Len(text) |-> BedAt(text, i)])
        mBaths == FirstMatch([i \in 1..Len(text) |-> BathAt(text, i)])
        school == FirstMatch([i \in 1..Len(text) |-> ZoneAt(text, i)])
        o1 == IF mPrice # NoMatch
              THEN Put(Put(EmptyCriteria, "price_min", ToNumber(mPrice[1])),
                       "price_max", ToNumber(mPrice[2]))
              ELSE EmptyCriteria
        o2 == IF mBeds # NoMatch THEN Put(o1, "beds_min", ToNumber(mBeds[1])) ELSE o1
        o3 == IF mBaths # NoMatch THEN Put(o2, "baths_min", ToNumber(mBaths[1])) ELSE o2
    IN  IF school # NoMatch THEN Put(o3, "zones", <<school[1]>>) ELSE o3

\* Spread the other way round: { ...b, ...a }
SpreadKeepingStored(a, b) ==
    [k \in DOMAIN a \cup DOMAIN b |-> IF k \in DOMAIN a THEN a[k] ELSE b[k]]

\* Spread with the stored criteria dropped: the extracted criteria replace them
SpreadReplacing(a, b) == b

\* { ...a, ...b }: every key of b overwrites, every other key of a is kept
Spread(a, b) ==
    [k \in DOMAIN a \cup DOMAIN b |-> IF k \in DOMAIN b THEN b[k] ELSE a[k]]

\* HasKeys with the test left out: the merge runs for every message
HasKeysAlways(extracted) == TRUE

\* Object.keys(extracted).length, as a truth value
HasKeys(extracted) == DOMAIN extracted # {}

\* !extracted.k : the key is absent, or its number is 0
Falsy(extracted, k) == k \notin DOMAIN extracted \/ extracted[k] = 0

PriceQuestion == "What price range are you comfortable with? (e.g., $250000 - $450000)"

BedsQuestion == "How many bedrooms minimum?"

MustHavesQuestion == "Any must-haves (pool, office, garage) or dealbreakers?"

\* the nextQ expression of the message handler
nextQ(extracted) ==
    IF Falsy(extracted, "price_max") THEN PriceQuestion
    ELSE IF Falsy(extracted, "beds_min") THEN BedsQuestion
    ELSE MustHavesQuestion

(***************************************************************************)
(* Inputs of the requests.                                                 *)
(***************************************************************************)
Procs == 1..NProc

\* one request at a time is served through the first slot
SeqProcs == {CHOOSE p \in Procs : \A q \in Procs : p <= q}

Phones == {"+13185551234", "+13185550000"}

\* a field the request body does not carry (or carries empty): !field holds
Missing == ""

PhoneInputs == Phones \cup {Missing}

RECURSIVE Pow2(_)
Pow2(n) == IF n = 0 THEN 1 ELSE 2 * Pow2(n - 1)

\* the exponent of a positive Number x: the e with 2^e <= x < 2^(e+1)
RECURSIVE Exponent(_)
Exponent(x) == IF x < 2 THEN 0 ELSE 1 + Exponent(x \div 2)

\* n / d rounded to the nearest integer, ties to even: the rounding of Number arithmetic
HalfEven(n, d) ==
    LET q == n \div d
        r == n % d
    IN  IF 2 * r > d \/ (2 * r = d /\ q % 2 = 1) THEN q + 1 ELSE q

\* GenCodeOn scaling the random number to six digits: Math.floor(Math.random() * 1000000)
GenCodeScaled(k, grid) == ToStr((k * (CodeBase + CodeSpan)) \div grid)

\* String(Math.floor(100000 + Math.random() * 900000)), Math.random() = k / grid;
\* for grid a power of two the product and the sum are exact Numbers
GenCodeOn(k, grid) == ToStr(CodeBase + ((k * CodeSpan) \div grid))

\* the same for Math.random() = 1 - d * 2^-53, the d-th largest double below 1.
\* The product 900000 - d * 900000 * 2^-53 is rounded to a multiple of the ulp
\* of 900000, which is 2^(e+1-53) for e the exponent of 900000: the product
\* is q ulps below 900000, q being d * 900000 / 2^(e+1) rounded.  The sum
\* 1000000 - q ulps has the same exponent and is exact.  Math.floor takes it
\* to 999999 when 0 < q (q ulps stay below 1 for the d of the model) and to
\* 1000000 when q = 0.
GenCodeTop(d) ==
    LET q == HalfEven(d * CodeSpan, Pow2(Exponent(CodeSpan) + 1))
    IN  ToStr(IF q = 0 THEN CodeBase + CodeSpan ELSE CodeBase + CodeSpan - 1)

GenCode(k) == GenCodeOn(k, RandGrid)

\* the values of Math.random() the code generation is called with on its own
RandomValues ==
    [top : {FALSE}, n : 0..(Pow2(RandBits) - 1)] \cup [top : {TRUE}, n : 1..RandTop]

\* the code generated from the random value r
RandomCode(r) == IF r.top THEN GenCodeTop(r.n) ELSE GenCodeOn(r.n, Pow2(RandBits))

WrongCode == <<"1", "2", "3", "4", "5", "6">>

NoText == <<>>

CodeInputs == {GenCode(k) : k \in 0..(RandGrid - 1)} \cup {WrongCode, NoText}

\* buyerId as the client sends it; 0 stands for a missing one
BuyerIdInputs == 0..Cardinality(Phones)

MsgBeds == <<"3", " ", "b", "e", "d">>

MsgPrice == <<"2", "5", "0", "0", "0", "0", "-", "4", "5", "0", "0", "0", "0">>

MsgBoth == <<"$", "9", "0", "0", " ", "-", " ", "$", "9", "9", "9", ",", " ", "4", "B", "R">>

MsgZone == <<"M", "O", "N", "R", "O", "E">>

MsgHello == <<"h", "i">>

MessageInputs == {MsgBeds, MsgPrice, MsgBoth, MsgZone, MsgHello, NoText}

\* the messages of the specification of all three endpoints: one from which
\* something is extracted, one from which nothing is, and a missing one
FewMessages == {MsgBeds, MsgHello, NoText}

\* the texts naiveExtractCriteria is called with on its own: a phrase, a
\* comma, a phrase, and the message of the scenario
TxtBed == <<"3", " ", "b", "e", "d">>

TxtBr == <<"4", "b", "r">>

TxtBa == <<"2", "B", "A">>

TxtBaths == <<"2", " ", "b", "a", "t", "h", "s">>

TxtPrice == <<"$", "2", "5", "0", "0", "0", "0", " ", "-", " ", "$", "4", "5", "0", "0", "0", "0">>

TxtShort == <<"9", "9", "-", "1", "0", "0">>

TxtZero == <<"0", "0", "0", "-", "0", "0", "0">>

TxtSterlington == <<"S", "t", "e", "r", "l", "i", "n", "g", "t", "o", "n">>

TxtWest == <<"w", "e", "s", "t", " ", "m", "o", "n", "r", "o", "e">>

TxtMonroe == <<"M", "O", "N", "R", "O", "E">>

TxtHello == <<"h", "i">>

TxtNone == <<>>

Phrases ==
    {TxtBed, TxtBr, TxtBa, TxtBaths, TxtPrice, TxtShort,
     TxtZero, TxtSterlington, TxtWest, TxtMonroe, TxtHello, TxtNone}

TxtScenario == <<"$", "2", "5", "0", "0", "0", "0", " ", "-", " ", "$", "4", "5", "0", "0", "0", "0", ",", " ", "3", " ", "b", "e", "d", ",", " ", "S", "t", "e", "r", "l", "i", "n", "g", "t", "o", "n">>

Texts == {a \o <<",", " ">> \o b : a, b \in Phrases} \cup {TxtScenario}

\* the messages of the overlapping calls: one key they both extract, with
\* different values, and keys only one of them extracts
TwoMessages == {MsgBeds, MsgBoth}

\* naiveExtractCriteria on the messages of the model, evaluated once
Extracted == [message \in MessageInputs |-> naiveExtractCriteria(message)]

(***************************************************************************)
(* State.                                                                  *)
(***************************************************************************)
VARIABLES
    buyer,          \* table buyer: rows [id, phone, phone_verified]
    otp_code,       \* table otp_code: rows [phone, code, expires_at, used], id = index
    saved_search,   \* table saved_search: rows [buyer_id, criteria], id = index,
                    \*   in the order of created_at
    now,            \* the clock, in milliseconds
    sms,            \* sms && TWILIO_FROM: the delivery channel is configured
    pc,             \* per request slot: the await the handler is at
    req,            \* per request slot: the request (endpoint and body)
    loc,            \* per request slot: the handler's local variables
    resp,           \* per request slot: the response sent
    pre,            \* the three tables when the request being served was received
    hist,           \* per buyer id: the criteria extracted by the message calls
                    \*   that stored them, in order
    auth,           \* per otp_code id: the successful verifications it was selected by
    left,           \* requests the behaviour may still receive
    ticks,          \* clock ticks taken
    arg,            \* the argument of the function exercised on its own
    out             \* the results of its calls, in order

vars == <<buyer, otp_code, saved_search, now, sms, pc, req, loc, resp, pre, hist,
          auth, left, ticks, arg, out>>

store == <<buyer, otp_code, saved_search>>

ghosts == <<hist, auth>>

\* the function exercised on its own: untouched by the handlers
unit == <<arg, out>>

NoArg == <<>>

NoReq == [kind |-> "none", phone |-> Missing, code |-> NoText, buyerId |-> 0,
          message |-> NoText]

NoLoc == [code |-> NoText, row |-> 0, buyer |-> 0, extracted |-> EmptyCriteria,
          merged |-> EmptyCriteria, checkTime |-> 0, queries |-> 0, failedAt |-> "none"]

SavedNull == <<>>

NoResp == [status |-> 0, error |-> "", buyerId |-> 0, reply |-> "",
           savedSearch |-> SavedNull]

\* the server after start-up, with a budget of requests to receive and an
\* argument drawn from args
StartWith(budget, args) ==
    /\ buyer = <<>>
    /\ otp_code = <<>>
    /\ saved_search = <<>>
    /\ now = 0
    /\ sms \in BOOLEAN
    /\ pc = [p \in Procs |-> "idle"]
    /\ req = [p \in Procs |-> NoReq]
    /\ loc = [p \in Procs |-> NoLoc]
    /\ resp = [p \in Procs |-> NoResp]
    /\ pre = <<buyer, otp_code, saved_search>>
    /\ hist = [b \in BuyerIdInputs |-> <<>>]
    /\ auth = <<>>
    /\ left = budget
    /\ ticks = 0
    /\ arg \in args
    /\ out = <<>>

Start(budget) == StartWith(budget, {NoArg})

(***************************************************************************)
(* Helpers.                                                                *)
(***************************************************************************)
\* nowPlus taking its argument for seconds: Date.now() + mins * 1000
nowPlusSeconds(mins) == now + mins * 1000

\* nowPlus(mins): new Date(Date.now() + mins * 60 * 1000)
nowPlus(mins) == now + mins * 60 * 1000

\* upsertBuyerByPhone inserting the new buyer as verified: values ($1, true)
upsertInsertingVerified(tbl, phone) ==
    IF \E i \in 1..Len(tbl) : tbl[i].phone = phone
    THEN tbl
    ELSE Append(tbl, [id |-> Len(tbl) + 1, phone |-> phone, phone_verified |-> TRUE])

\* upsertBuyerByPhone overwriting the flag on conflict:
\*   do update set phone_verified = excluded.phone_verified
upsertResettingVerified(tbl, phone) ==
    IF \E i \in 1..Len(tbl) : tbl[i].phone = phone
    THEN [i \in 1..Len(tbl) |->
             IF tbl[i].phone = phone THEN [tbl[i] EXCEPT !.phone_verified = FALSE]
             ELSE tbl[i]]
    ELSE Append(tbl, [id |-> Len(tbl) + 1, phone |-> phone, phone_verified |-> FALSE])

\* insert into buyer (phone, phone_verified) values ($1, false)
\*   on conflict (phone) do update set phone = excluded.phone
upsertBuyerByPhone(tbl, phone) ==
    IF \E i \in 1..Len(tbl) : tbl[i].phone = phone
    THEN [i \in 1..Len(tbl) |->
             IF tbl[i].phone = phone THEN [tbl[i] EXCEPT !.phone = phone] ELSE tbl[i]]
    ELSE Append(tbl, [id |-> Len(tbl) + 1, phone |-> phone, phone_verified |-> FALSE])

\* returning * : the id of the row the upsert wrote
UpsertedId(tbl, phone) ==
    tbl[CHOOSE i \in 1..Len(tbl) : tbl[i].phone = phone].id

\* insert into otp_code (phone, code, expires_at) values ($1, $2, $3); used defaults to false
InsertOtp(tbl, phone, code, expires_at) ==
    Append(tbl, [phone |-> phone, code |-> code, expires_at |-> expires_at,
                 used |-> FALSE])

\* OtpMatches without the test of used
OtpMatchesIgnoringUsed(tbl, phone, code, t) ==
    {i \in 1..Len(tbl) :
        /\ tbl[i].phone = phone
        /\ tbl[i].code = code
        /\ tbl[i].expires_at > t}

\* OtpMatches with expires_at >= now()
OtpMatchesAtExpiry(tbl, phone, code, t) ==
    {i \in 1..Len(tbl) :
        /\ tbl[i].phone = phone
        /\ tbl[i].code = code
        /\ tbl[i].used = FALSE
        /\ tbl[i].expires_at >= t}

\* OtpMatches without the test of the code
OtpMatchesAnyCode(tbl, phone, code, t) ==
    {i \in 1..Len(tbl) :
        /\ tbl[i].phone = phone
        /\ tbl[i].used = FALSE
        /\ tbl[i].expires_at > t}

\* where phone=$1 and code=$2 and used=false and expires_at>now()
OtpMatches(tbl, phone, code, t) ==
    {i \in 1..Len(tbl) :
        /\ tbl[i].phone = phone
        /\ tbl[i].code = code
        /\ tbl[i].used = FALSE
        /\ tbl[i].expires_at > t}

\* order by expires_at desc limit 1: the rows the query may return first
\* (rows of equal expires_at come in either order)
OtpLatest(tbl, ids) ==
    {i \in ids : \A j \in ids : tbl[j].expires_at <= tbl[i].expires_at}

\* MarkUsed by phone: update otp_code set used=true where phone = (the phone of row id)
MarkUsedForPhone(tbl, id) ==
    [i \in 1..Len(tbl) |->
        IF tbl[i].phone = tbl[id].phone THEN [tbl[i] EXCEPT !.used = TRUE] ELSE tbl[i]]

\* MarkUsed whose update matches no row
MarkUsedNowhere(tbl, id) == tbl

\* update otp_code set used=true where id=$1
MarkUsed(tbl, id) ==
    [i \in 1..Len(tbl) |-> IF i = id THEN [tbl[i] EXCEPT !.used = TRUE] ELSE tbl[i]]

\* update buyer set phone_verified=true where id=$1
SetVerified(tbl, id) ==
    [i \in 1..Len(tbl) |->
        IF tbl[i].id = id THEN [tbl[i] EXCEPT !.phone_verified = TRUE] ELSE tbl[i]]

\* EarliestSavedSearch that never finds a row
EarliestNone(tbl, buyerId) == 0

\* select * from saved_search where buyer_id=$1 order by created_at asc limit 1:
\* the id of the row, 0 when there is none
EarliestSavedSearch(tbl, buyerId) ==
    IF \E i \in 1..Len(tbl) : tbl[i].buyer_id = buyerId
    THEN CHOOSE i \in 1..Len(tbl) :
             /\ tbl[i].buyer_id = buyerId
             /\ \A j \in 1..(i - 1) : tbl[j].buyer_id # buyerId
    ELSE 0

\* update saved_search set criteria=$1 where id=$2
UpdateSavedSearch(tbl, id, criteria) ==
    [i \in 1..Len(tbl) |-> IF i = id THEN [tbl[i] EXCEPT !.criteria = criteria] ELSE tbl[i]]

\* insert into saved_search (buyer_id, criteria) values ($1,$2)
InsertSavedSearch(tbl, buyerId, criteria) ==
    Append(tbl, [buyer_id |-> buyerId, criteria |-> criteria])

\* res.status(s).json(...) : the response is sent and the handler ends
Respond(p, r) ==
    /\ resp' = [resp EXCEPT ![p] = r]
    /\ pc' = [pc EXCEPT ![p] = "done"]

\* a rejected await lands in the handler's catch block: 500 with its message
Catch(p, message) ==
    /\ Respond(p, [NoResp EXCEPT !.status = 500, !.error = message])
    /\ loc' = [loc EXCEPT ![p].failedAt = pc[p]]

\* one more pool.query awaited by the handler in slot p
Queried(l) == [l EXCEPT !.queries = @ + 1]

\* a request is received in the idle slot p
Receive(p, r) ==
    /\ pc[p] = "idle"
    /\ left > 0
    /\ left' = left - 1
    /\ req' = [req EXCEPT ![p] = r]
    /\ pre' = <<buyer, otp_code, saved_search>>

(***************************************************************************)
(* POST /auth/send-otp                                                     *)
(***************************************************************************)
SendOtp(p) ==
    /\ \E phone \in PhoneInputs, k \in 0..(RandGrid - 1) :
          /\ Receive(p, [NoReq EXCEPT !.kind = "send-otp", !.phone = phone])
          /\ IF phone = Missing
             THEN /\ Respond(p, [NoResp EXCEPT !.status = 400, !.error = "phone required"])
                  /\ UNCHANGED loc
             ELSE /\ loc' = [loc EXCEPT ![p].code = GenCode(k)]
                  /\ pc' = [pc EXCEPT ![p] = "so_upsert"]
                  /\ UNCHANGED resp
    /\ UNCHANGED <<store, now, sms, ghosts, ticks, unit>>

SendOtpUpsert(p) ==
    /\ pc[p] = "so_upsert"
    /\ \/ /\ buyer' = upsertBuyerByPhone(buyer, req[p].phone)
          /\ loc' = [loc EXCEPT ![p] = Queried(@)]
          /\ pc' = [pc EXCEPT ![p] = "so_insert"]
          /\ UNCHANGED resp
       \/ /\ Catch(p, "failed to send otp")
          /\ UNCHANGED buyer
    /\ UNCHANGED <<otp_code, saved_search, now, sms, req, pre, ghosts, left, ticks, unit>>

SendOtpInsert(p) ==
    /\ pc[p] = "so_insert"
    /\ \/ /\ otp_code' = InsertOtp(otp_code, req[p].phone, loc[p].code,
                                   nowPlus(OtpTtlMinutes))
          /\ auth' = Append(auth, 0)
          /\ loc' = [loc EXCEPT ![p] = [Queried(@) EXCEPT !.row = Len(otp_code')]]
          /\ pc' = [pc EXCEPT ![p] = "so_sms"]
          /\ UNCHANGED resp
       \/ /\ Catch(p, "failed to send otp")
          /\ UNCHANGED <<otp_code, auth>>
    /\ UNCHANGED <<buyer, saved_search, now, sms, req, pre, hist, left, ticks, unit>>

\* SendOtpDeliver whose catch revokes the code it could not deliver:
\*   update otp_code set used=true where id = (the row inserted)
SendOtpDeliverRevoking(p) ==
    /\ pc[p] = "so_sms"
    /\ \/ /\ Respond(p, [NoResp EXCEPT !.status = 200])
          /\ UNCHANGED <<loc, otp_code>>
       \/ /\ sms
          /\ Catch(p, "failed to send otp")
          /\ otp_code' = MarkUsed(otp_code, loc[p].row)
    /\ UNCHANGED <<buyer, saved_search, now, sms, req, pre, ghosts, left, ticks, unit>>

\* if (sms && TWILIO_FROM) await sms.messages.create(...) else console.log(...)
SendOtpDeliver(p) ==
    /\ pc[p] = "so_sms"
    /\ \/ /\ Respond(p, [NoResp EXCEPT !.status = 200])
          /\ UNCHANGED loc
       \/ /\ sms
          /\ Catch(p, "failed to send otp")
    /\ UNCHANGED <<store, now, sms, req, pre, ghosts, left, ticks, unit>>

(***************************************************************************)
(* POST /auth/check-otp                                                    *)
(***************************************************************************)
\* CheckOtp refusing only a body that lacks both fields: if (!phone && !code)
CheckOtpLackingBoth(p) ==
    /\ \E phone \in PhoneInputs, code \in CodeInputs :
          /\ Receive(p, [NoReq EXCEPT !.kind = "check-otp", !.phone = phone,
                                      !.code = code])
          /\ IF phone = Missing /\ code = NoText
             THEN Respond(p, [NoResp EXCEPT !.status = 400,
                                            !.error = "phone and code required"])
             ELSE /\ pc' = [pc EXCEPT ![p] = "co_select"]
                  /\ UNCHANGED resp
    /\ UNCHANGED <<store, now, sms, loc, ghosts, ticks, unit>>

CheckOtp(p) ==
    /\ \E phone \in PhoneInputs, code \in CodeInputs :
          /\ Receive(p, [NoReq EXCEPT !.kind = "check-otp", !.phone = phone,
                                      !.code = code])
          /\ IF phone = Missing \/ code = NoText
             THEN Respond(p, [NoResp EXCEPT !.status = 400,
                                            !.error = "phone and code required"])
             ELSE /\ pc' = [pc EXCEPT ![p] = "co_select"]
                  /\ UNCHANGED resp
    /\ UNCHANGED <<store, now, sms, loc, ghosts, ticks, unit>>

CheckOtpSelect(p) ==
    /\ pc[p] = "co_select"
    /\ LET rows == OtpMatches(otp_code, req[p].phone, req[p].code, now)
       IN  \/ /\ rows = {}
              /\ Respond(p, [NoResp EXCEPT !.status = 400,
                                           !.error = "invalid or expired code"])
              /\ loc' = [loc EXCEPT ![p] = [Queried(@) EXCEPT !.checkTime = now]]
           \/ /\ \E id \in OtpLatest(otp_code, rows) :
                    loc' = [loc EXCEPT ![p] =
                               [Queried(@) EXCEPT !.row = id, !.checkTime = now]]
              /\ pc' = [pc EXCEPT ![p] = "co_mark"]
              /\ UNCHANGED resp
           \/ Catch(p, "failed to verify")
    /\ UNCHANGED <<store, now, sms, req, pre, ghosts, left, ticks, unit>>

CheckOtpMark(p) ==
    /\ pc[p] = "co_mark"
    /\ \/ /\ otp_code' = MarkUsed(otp_code, loc[p].row)
          /\ loc' = [loc EXCEPT ![p] = Queried(@)]
          /\ pc' = [pc EXCEPT ![p] = "co_upsert"]
          /\ UNCHANGED resp
       \/ /\ Catch(p, "failed to verify")
          /\ UNCHANGED otp_code
    /\ UNCHANGED <<buyer, saved_search, now, sms, req, pre, ghosts, left, ticks, unit>>

CheckOtpUpsert(p) ==
    /\ pc[p] = "co_upsert"
    /\ \/ /\ buyer' = upsertBuyerByPhone(buyer, req[p].phone)
          /\ loc' = [loc EXCEPT ![p] =
                        [Queried(@) EXCEPT !.buyer = UpsertedId(buyer', req[p].phone)]]
          /\ pc' = [pc EXCEPT ![p] = "co_verify"]
          /\ UNCHANGED resp
       \/ /\ Catch(p, "failed to verify")
          /\ UNCHANGED buyer
    /\ UNCHANGED <<otp_code, saved_search, now, sms, req, pre, ghosts, left, ticks, unit>>

CheckOtpVerify(p) ==
    /\ pc[p] = "co_verify"
    /\ \/ /\ buyer' = SetVerified(buyer, loc[p].buyer)
          /\ auth' = [auth EXCEPT ![loc[p].row] = @ + 1]
          /\ loc' = [loc EXCEPT ![p] = Queried(@)]
          /\ Respond(p, [NoResp EXCEPT !.status = 200, !.buyerId = loc[p].buyer])
       \/ /\ Catch(p, "failed to verify")
          /\ UNCHANGED <<buyer, auth>>
    /\ UNCHANGED <<otp_code, saved_search, now, sms, req, pre, hist, left, ticks, unit>>

(***************************************************************************)
(* POST /agent/message                                                     *)
(***************************************************************************)
\* { reply: nextQ, savedSearch: saved }
Reply(extracted, saved) ==
    [NoResp EXCEPT !.status = 200, !.reply = nextQ(extracted), !.savedSearch = saved]

AgentMessage(p, messages) ==
    /\ \E buyerId \in BuyerIdInputs, message \in messages :
          /\ Receive(p, [NoReq EXCEPT !.kind = "message", !.buyerId = buyerId,
                                      !.message = message])
          /\ IF buyerId = 0 \/ message = NoText
             THEN /\ Respond(p, [NoResp EXCEPT !.status = 400,
                                               !.error = "buyerId and message required"])
                  /\ UNCHANGED loc
             ELSE LET extracted == Extracted[message]
                  IN  /\ loc' = [loc EXCEPT ![p].extracted = extracted]
                      /\ IF HasKeys(extracted)
                         THEN /\ pc' = [pc EXCEPT ![p] = "am_select"]
                              /\ UNCHANGED resp
                         ELSE Respond(p, Reply(extracted, SavedNull))
    /\ UNCHANGED <<store, now, sms, ghosts, ticks, unit>>

AgentMessageSelect(p) ==
    /\ pc[p] = "am_select"
    /\ \/ LET id == EarliestSavedSearch(saved_search, req[p].buyerId)
          IN  /\ loc' = [loc EXCEPT ![p] =
                            [Queried(@) EXCEPT
                                !.row = id,
                                !.merged = IF id = 0 THEN EmptyCriteria
                                           ELSE Spread(saved_search[id].criteria,
                                                       loc[p].extracted)]]
              /\ pc' = [pc EXCEPT ![p] = IF id = 0 THEN "am_insert" ELSE "am_update"]
              /\ UNCHANGED resp
       \/ Catch(p, "agent error")
    /\ UNCHANGED <<store, now, sms, req, pre, ghosts, left, ticks, unit>>

AgentMessageUpdate(p) ==
    /\ pc[p] = "am_update"
    /\ \/ /\ saved_search' = UpdateSavedSearch(saved_search, loc[p].row, loc[p].merged)
          /\ hist' = [hist EXCEPT ![req[p].buyerId] = Append(@, loc[p].extracted)]
          /\ loc' = [loc EXCEPT ![p] = Queried(@)]
          /\ Respond(p, Reply(loc[p].extracted,
                              <<[id |-> loc[p].row, criteria |-> loc[p].merged]>>))
       \/ /\ Catch(p, "agent error")
          /\ UNCHANGED <<saved_search, hist>>
    /\ UNCHANGED <<buyer, otp_code, now, sms, req, pre, auth, left, ticks, unit>>

AgentMessageInsert(p) ==
    /\ pc[p] = "am_insert"
    /\ \/ /\ saved_search' = InsertSavedSearch(saved_search, req[p].buyerId,
                                               loc[p].extracted)
          /\ hist' = [hist EXCEPT ![req[p].buyerId] = Append(@, loc[p].extracted)]
          /\ loc' = [loc EXCEPT ![p] = Queried(@)]
          /\ Respond(p, Reply(loc[p].extracted,
                              <<[id |-> Len(saved_search'),
                                 criteria |-> saved_search'[Len(saved_search')].criteria]>>))
       \/ /\ Catch(p, "agent error")
          /\ UNCHANGED <<saved_search, hist>>
    /\ UNCHANGED <<buyer, otp_code, now, sms, req, pre, auth, left, ticks, unit>>

(***************************************************************************)
(* The environment.                                                        *)
(***************************************************************************)
\* the response has been delivered: the slot is free again
Finish(p) ==
    /\ pc[p] = "done"
    /\ pc' = [pc EXCEPT ![p] = "idle"]
    /\ req' = [req EXCEPT ![p] = NoReq]
    /\ loc' = [loc EXCEPT ![p] = NoLoc]
    /\ resp' = [resp EXCEPT ![p] = NoResp]
    /\ pre' = <<buyer, otp_code, saved_search>>
    /\ UNCHANGED <<store, now, sms, ghosts, left, ticks, unit>>

\* the awaits whose query or argument reads the clock: nowPlus(10) of the
\* insert into otp_code, now() of the select from otp_code
ReadsClock(p) == pc[p] \in {"so_insert", "co_select"}

\* Time passes, between requests and between the awaits of a handler.  Only
\* the two clock reads observe it, so the ticks since the last read are
\* taken right before a handler reads the clock.
Tick ==
    /\ ticks < MaxTicks
    /\ \E p \in Procs : ReadsClock(p)
    /\ ticks' = ticks + 1
    /\ now' = now + TickMinutes * 60 * 1000
    /\ UNCHANGED <<store, sms, pc, req, loc, resp, pre, ghosts, left, unit>>

\* the steps of an OTP handler running in slot p
OtpHandler(p) ==
    \/ SendOtpUpsert(p) \/ SendOtpInsert(p) \/ SendOtpDeliver(p)
    \/ CheckOtpSelect(p) \/ CheckOtpMark(p) \/ CheckOtpUpsert(p) \/ CheckOtpVerify(p)

\* the steps of a message handler running in slot p
MessageHandler(p) ==
    \/ AgentMessageSelect(p) \/ AgentMessageUpdate(p) \/ AgentMessageInsert(p)

\* Requests are served one at a time: a request is received only when no
\* handler is running.
Next ==
    \/ \E p \in SeqProcs : SendOtp(p)
    \/ \E p \in SeqProcs : CheckOtp(p)
    \/ \E p \in SeqProcs : AgentMessage(p, FewMessages)
    \/ \E p \in SeqProcs : OtpHandler(p)
    \/ \E p \in SeqProcs : MessageHandler(p)
    \/ \E p \in SeqProcs : Finish(p)
    \/ Tick

Init == Start(MaxReqs)

Spec == Init /\ [][Next]_vars

\* the two OTP endpoints alone
OtpNext ==
    \/ \E p \in SeqProcs : SendOtp(p)
    \/ \E p \in SeqProcs : CheckOtp(p)
    \/ \E p \in SeqProcs : OtpHandler(p)
    \/ \E p \in SeqProcs : Finish(p)
    \/ Tick

OtpSpec == Start(MaxOtpReqs) /\ [][OtpNext]_vars

\* the message endpoint alone (its handler reads no clock)
MsgNext ==
    \/ \E p \in SeqProcs : AgentMessage(p, MessageInputs)
    \/ \E p \in SeqProcs : MessageHandler(p)
    \/ \E p \in SeqProcs : Finish(p)

MsgSpec == Start(MaxMsgs) /\ [][MsgNext]_vars

\* the code generation of send-otp called on its own
GenerateCode ==
    /\ out = <<>>
    /\ out' = <<RandomCode(arg)>>
    /\ UNCHANGED <<store, now, sms, pc, req, loc, resp, pre, ghosts, left, ticks, arg>>

CodeSpec == StartWith(0, RandomValues) /\ [][GenerateCode]_vars

\* naiveExtractCriteria called on its own
Extract ==
    /\ Len(out) < MaxCalls
    /\ out' = Append(out, naiveExtractCriteria(arg))
    /\ UNCHANGED <<store, now, sms, pc, req, loc, resp, pre, ghosts, left, ticks, arg>>

ExtractSpec == StartWith(0, Texts) /\ [][Extract]_vars

\* the phone of a client that keeps to one phone
RepeatPhone == "+13185551234"

\* the two OTP endpoints called for one phone
RepeatNext ==
    \/ \E p \in SeqProcs : SendOtp(p) /\ req'[p].phone = RepeatPhone
    \/ \E p \in SeqProcs : CheckOtp(p) /\ req'[p].phone = RepeatPhone
    \/ \E p \in SeqProcs : OtpHandler(p)
    \/ \E p \in SeqProcs : Finish(p)
    \/ Tick

RepeatSpec == Start(MaxRepeatReqs) /\ [][RepeatNext]_vars

\* no handler is running
Quiet == \A q \in Procs : pc[q] \in {"idle", "done"}

\* slot p is the one of the next request: the n-th request is served in slot n
NextSlot(p) == Quiet /\ p = NProc - left + 1

\* The two OTP endpoints served one request at a time, the n-th request in
\* slot n, where its response stays: a lower slot holds an earlier call.
LingerNext ==
    \/ \E p \in Procs : NextSlot(p) /\ SendOtp(p)
    \/ \E p \in Procs : NextSlot(p) /\ CheckOtp(p)
    \/ \E p \in Procs : OtpHandler(p)
    \/ Tick

LingerSpec == Start(NProc) /\ [][LingerNext]_vars

\* The two OTP endpoints called for one phone with the calls overlapping,
\* within the ten minutes of a code: a request is received in any free slot,
\* and the handlers in the slots take their awaits in any order.  The
\* delivery channel is not configured: the codes are logged.
ConcOtpNext ==
    \/ \E p \in Procs : SendOtp(p) /\ req'[p].phone = RepeatPhone
    \/ \E p \in Procs : CheckOtp(p) /\ req'[p].phone = RepeatPhone
    \/ \E p \in Procs : OtpHandler(p)
    \/ \E p \in Procs : Finish(p)

ConcOtpInit == Start(MaxConcReqs) /\ ~sms

ConcOtpSpec == ConcOtpInit /\ [][ConcOtpNext]_vars

\* the buyer of a client that keeps to one buyer
RepeatBuyer == 1

\* The message endpoint called for one buyer with the calls overlapping.
ConcMsgNext ==
    \/ \E p \in Procs : AgentMessage(p, TwoMessages) /\ req'[p].buyerId = RepeatBuyer
    \/ \E p \in Procs : MessageHandler(p)
    \/ \E p \in Procs : Finish(p)

ConcMsgSpec == Start(MaxConcMsgs) /\ [][ConcMsgNext]_vars

(***************************************************************************)
(* Vocabulary of the properties.                                           *)
(***************************************************************************)
\* the handler in slot p has answered a request of the given endpoint
Done(p, kind) == pc[p] = "done" /\ req[p].kind = kind

preBuyer == pre[1]

preOtp == pre[2]

preSaved == pre[3]

\* the OtpCodes of tbl that are for phone and code, unused, and expire strictly after t
Valid(tbl, phone, code, t) ==
    {i \in 1..Len(tbl) :
        /\ tbl[i].phone = phone /\ tbl[i].code = code
        /\ ~tbl[i].used /\ tbl[i].expires_at > t}

\* the OtpCodes that went from used=false to used=true since the request was received
Consumed == {i \in 1..Len(preOtp) : ~preOtp[i].used /\ otp_code[i].used}

\* tbl and its earlier value old differ at most in the used flags
SameButUsed(old, tbl) ==
    /\ Len(tbl) = Len(old)
    /\ \A i \in 1..Len(old) : [tbl[i] EXCEPT !.used = old[i].used] = old[i]

\* the SavedSearch rows of buyer b
SearchesOf(tbl, b) == {i \in 1..Len(tbl) : tbl[i].buyer_id = b}

\* the follow-up question as the design states it: a key is unset when absent
NextQuestion(criteria) ==
    IF "price_max" \notin DOMAIN criteria THEN PriceQuestion
    ELSE IF "beds_min" \notin DOMAIN criteria THEN BedsQuestion
    ELSE MustHavesQuestion

\* the partial criteria of h that carry key k
Carrying(h, k) == {j \in 1..Len(h) : k \in DOMAIN h[j]}

\* the latest of a non-empty set of positions
Latest(js) == CHOOSE j \in js : \A i \in js : i <= j

(***************************************************************************)
(* C1. A VerifyCode that does not end in a store error (500) succeeds if   *)
(* and only if, at check time, some OtpCode has the presented phone and    *)
(* code, is unused and expires strictly later than the check time; and a   *)
(* successful VerifyCode turns exactly one OtpCode from unused to used and *)
(* changes nothing else in the table.                                      *)
(***************************************************************************)
C1_VerifySucceedsIffValidCode ==
    \A p \in Procs :
        (Done(p, "check-otp") /\ resp[p].status # 500) =>
            /\ resp[p].status = 200 <=>
                  Valid(preOtp, req[p].phone, req[p].code, loc[p].checkTime) # {}
            /\ resp[p].status = 200 =>
                  /\ Cardinality(Consumed) = 1
                  /\ SameButUsed(preOtp, otp_code)

\* a successful verification that had two valid codes to choose from
C1_Witness ==
    \E p \in Procs :
        /\ Done(p, "check-otp") /\ resp[p].status = 200
        /\ Cardinality(Valid(preOtp, req[p].phone, req[p].code, loc[p].checkTime)) = 2
        /\ Cardinality(Consumed) = 1

(***************************************************************************)
(* C2. A VerifyCode whose select ran and found no OtpCode for the phone    *)
(* and code that is unused and unexpired answers 400 'invalid or expired   *)
(* code' and leaves buyer, otp_code and saved_search as they were.         *)
(***************************************************************************)
C2_FailedVerifyChangesNothing ==
    \A p \in Procs :
        ( /\ Done(p, "check-otp")
          /\ loc[p].queries >= 1
          /\ Valid(preOtp, req[p].phone, req[p].code, loc[p].checkTime) = {} ) =>
            /\ resp[p].status = 400
            /\ resp[p].error = "invalid or expired code"
            /\ <<buyer, otp_code, saved_search>> = pre

\* a wrong code is refused while a valid code for the phone is outstanding
C2_Witness ==
    \E p \in Procs :
        /\ Done(p, "check-otp") /\ resp[p].status = 400
        /\ resp[p].error = "invalid or expired code"
        /\ req[p].code = WrongCode
        /\ \E i \in 1..Len(otp_code) :
              /\ otp_code[i].phone = req[p].phone
              /\ ~otp_code[i].used /\ otp_code[i].expires_at > loc[p].checkTime

(***************************************************************************)
(* C3. A Buyer is verified only if an OtpCode of its phone is used; the    *)
(* flag is set only by the last step of a VerifyCode for that phone that   *)
(* answers 200, and once set it is never cleared.                          *)
(***************************************************************************)
VerifiedHasUsedCode ==
    \A i \in 1..Len(buyer) :
        buyer[i].phone_verified =>
            \E j \in 1..Len(otp_code) :
                otp_code[j].phone = buyer[i].phone /\ otp_code[j].used

VerifiedOnlyByVerifyCode ==
    /\ \A i \in 1..Len(buyer) :
          buyer[i].phone_verified =>
              /\ i <= Len(buyer')
              /\ buyer'[i].phone = buyer[i].phone
              /\ buyer'[i].phone_verified
    /\ \A i \in 1..Len(buyer') :
          (buyer'[i].phone_verified /\ ~(i <= Len(buyer) /\ buyer[i].phone_verified)) =>
              \E p \in Procs :
                  /\ req[p].kind = "check-otp" /\ pc[p] = "co_verify"
                  /\ req[p].phone = buyer'[i].phone
                  /\ resp'[p].status = 200

C3_VerifiedOnlyByVerifyCode ==
    [](VerifiedHasUsedCode) /\ [][VerifiedOnlyByVerifyCode]_vars

\* a verified buyer whose phone then went through a message call and nothing else
C3_Witness ==
    \E p \in Procs :
        /\ Done(p, "message") /\ resp[p].status = 200 /\ HasKeys(loc[p].extracted)
        /\ \E i \in 1..Len(buyer) :
              buyer[i].id = req[p].buyerId /\ buyer[i].phone_verified

(***************************************************************************)
(* C4. With message calls served one at a time, the criteria stored for a  *)
(* buyer are the right-biased merge of the partial criteria its messages   *)
(* stored: the stored keys are those some message extracted, and each key  *)
(* holds the value of the latest message that extracted it.                *)
(***************************************************************************)
C4_MergeIsRightBiased ==
    \A b \in BuyerIdInputs :
        hist[b] # <<>> =>
            /\ SearchesOf(saved_search, b) # {}
            /\ \A i \in SearchesOf(saved_search, b) :
                  LET c == saved_search[i].criteria
                  IN  /\ DOMAIN c = UNION {DOMAIN hist[b][j] : j \in 1..Len(hist[b])}
                      /\ \A k \in DOMAIN c :
                            c[k] = hist[b][Latest(Carrying(hist[b], k))][k]

\* "3 bed" then "250000-450000": beds_min, price_min and price_max are all set
C4_Witness ==
    \E b \in BuyerIdInputs, i \in 1..Len(saved_search) :
        /\ hist[b] = <<naiveExtractCriteria(MsgBeds), naiveExtractCriteria(MsgPrice)>>
        /\ saved_search[i].buyer_id = b
        /\ saved_search[i].criteria =
              [beds_min |-> 3, price_min |-> 250000, price_max |-> 450000]

(***************************************************************************)
(* C5. The reply to a message from which something was extracted is the    *)
(* follow-up question of the buyer's merged criteria as stored after the   *)
(* merge: price range if price_max is absent, else bedrooms if beds_min is *)
(* absent, else must-haves.                                                *)
(***************************************************************************)
C5_ReplyFromMergedCriteria ==
    \A p \in Procs :
        (Done(p, "message") /\ resp[p].status = 200 /\ loc[p].extracted # EmptyCriteria) =>
            \A i \in SearchesOf(saved_search, req[p].buyerId) :
                resp[p].reply = NextQuestion(saved_search[i].criteria)

(***************************************************************************)
(* C6. A message from which nothing is extracted is answered without any   *)
(* query: saved_search is unchanged and the response carries               *)
(* savedSearch = null, also when the buyer has a SavedSearch.              *)
(***************************************************************************)
C6_EmptyExtractionTouchesNothing ==
    \A p \in Procs :
        ( /\ Done(p, "message")
          /\ req[p].buyerId # 0 /\ req[p].message # NoText
          /\ loc[p].extracted = EmptyCriteria ) =>
            /\ resp[p].status = 200
            /\ resp[p].savedSearch = SavedNull
            /\ loc[p].queries = 0
            /\ saved_search = preSaved

\* nothing extracted from a message of a buyer that has a SavedSearch
C6_Witness ==
    \E p \in Procs :
        /\ Done(p, "message") /\ resp[p].status = 200
        /\ req[p].message = MsgHello
        /\ resp[p].savedSearch = SavedNull
        /\ SearchesOf(saved_search, req[p].buyerId) # {}

(***************************************************************************)
(* C7. With message calls served one at a time, a buyer never has more     *)
(* than one SavedSearch: a message with a non-empty extraction inserts one *)
(* row holding exactly the extracted criteria when the buyer has none, and *)
(* otherwise updates the buyer's row and inserts nothing.                  *)
(***************************************************************************)
C7_OneSavedSearchPerBuyer ==
    /\ \A b \in BuyerIdInputs : Cardinality(SearchesOf(saved_search, b)) <= 1
    /\ \A p \in Procs :
          (Done(p, "message") /\ resp[p].status = 200 /\ loc[p].extracted # EmptyCriteria) =>
              IF SearchesOf(preSaved, req[p].buyerId) = {}
              THEN saved_search = Append(preSaved, [buyer_id |-> req[p].buyerId,
                                                    criteria |-> loc[p].extracted])
              ELSE /\ Len(saved_search) = Len(preSaved)
                   /\ \A i \in 1..Len(preSaved) :
                         /\ saved_search[i].buyer_id = preSaved[i].buyer_id
                         /\ preSaved[i].buyer_id # req[p].buyerId =>
                               saved_search[i] = preSaved[i]

\* a second message of a buyer updated the row the first one created
C7_Witness ==
    \E p \in Procs :
        /\ Done(p, "message") /\ resp[p].status = 200
        /\ loc[p].extracted # EmptyCriteria
        /\ SearchesOf(preSaved, req[p].buyerId) # {}
        /\ \E i \in 1..Len(saved_search) : saved_search[i] # preSaved[i]

(***************************************************************************)
(* C8. IssueCode answers 200 whenever the buyer upsert and the OtpCode     *)
(* insert succeed, whatever the delivery channel does, and answers an      *)
(* error only when one of these two store operations fails.                *)
(***************************************************************************)
C8_IssueSucceedsUnlessStoreFails ==
    \A p \in Procs :
        (Done(p, "send-otp") /\ req[p].phone # Missing) =>
            /\ loc[p].queries = 2 => resp[p].status = 200
            /\ resp[p].status # 200 => loc[p].failedAt \in {"so_upsert", "so_insert"}

(***************************************************************************)
(* C9. There is at most one Buyer per phone, and IssueCode leaves every    *)
(* Buyer that existed when it was called as it was: same id, same phone,   *)
(* same phone_verified.                                                    *)
(***************************************************************************)
C9_IssueKeepsBuyers ==
    /\ \A i, j \in 1..Len(buyer) : buyer[i].phone = buyer[j].phone => i = j
    /\ \A p \in Procs :
          req[p].kind = "send-otp" =>
              /\ Len(preBuyer) <= Len(buyer)
              /\ \A i \in 1..Len(preBuyer) : buyer[i] = preBuyer[i]

\* a code is issued for a phone that is already verified, and it stays verified
C9_Witness ==
    \E p \in Procs :
        /\ Done(p, "send-otp") /\ resp[p].status = 200
        /\ \E i \in 1..Len(buyer) :
              buyer[i].phone = req[p].phone /\ buyer[i].phone_verified

(***************************************************************************)
(* C10. With requests served one at a time, an OtpCode is selected by at   *)
(* most one successful VerifyCode; once a VerifyCode for a phone and code  *)
(* has succeeded, a later one for the same phone and code answers 400      *)
(* 'invalid or expired code' unless another unused unexpired OtpCode for   *)
(* that phone and code exists.                                             *)
(***************************************************************************)
C10_CodeAuthorisesOnce ==
    /\ \A i \in 1..Len(auth) : auth[i] <= 1
    /\ \A p \in Procs :
          (Done(p, "check-otp") /\ loc[p].queries >= 1) =>
              /\ resp[p].status = 200 => ~preOtp[loc[p].row].used
              /\ ( /\ \E i \in 1..Len(preOtp) :
                         /\ preOtp[i].phone = req[p].phone
                         /\ preOtp[i].code = req[p].code
                         /\ auth[i] >= 1 /\ i # loc[p].row
                   /\ Valid(preOtp, req[p].phone, req[p].code, loc[p].checkTime) = {} ) =>
                     /\ resp[p].status = 400
                     /\ resp[p].error = "invalid or expired code"

\* the code of a successful verification is presented again, before it expires
C10_Witness ==
    \E p \in Procs :
        /\ Done(p, "check-otp") /\ resp[p].status = 400
        /\ \E i \in 1..Len(otp_code) :
              /\ otp_code[i].phone = req[p].phone /\ otp_code[i].code = req[p].code
              /\ auth[i] = 1
              /\ otp_code[i].expires_at > loc[p].checkTime

(***************************************************************************)
(* C11. The OtpCode a send-otp inserts at clock t has expiry t + 10        *)
(* minutes, and it can be verified only at check times strictly before     *)
(* its expiry: a VerifyCode succeeds only on a record whose expiry is      *)
(* later than the check time, and when every record for the presented      *)
(* phone and code has its expiry at or before the check time the call      *)
(* answers 400 'invalid or expired code', unused though a record may be.   *)
(***************************************************************************)
IssueSetsExpiry ==
    \A p \in Procs :
        (pc[p] = "so_insert" /\ pc'[p] = "so_sms") =>
            otp_code' = Append(otp_code, [phone |-> req[p].phone, code |-> loc[p].code,
                                          expires_at |-> now + 10 * 60 * 1000,
                                          used |-> FALSE])

ExpiredIsRefused ==
    \A p \in Procs :
        (Done(p, "check-otp") /\ loc[p].queries >= 1 /\ resp[p].status # 500) =>
            /\ resp[p].status = 200 => loc[p].checkTime < preOtp[loc[p].row].expires_at
            /\ (\A i \in 1..Len(preOtp) :
                   (preOtp[i].phone = req[p].phone /\ preOtp[i].code = req[p].code) =>
                       loc[p].checkTime >= preOtp[i].expires_at) =>
                  /\ resp[p].status = 400
                  /\ resp[p].error = "invalid or expired code"

C11_ExpiresAfterTenMinutes ==
    [](ExpiredIsRefused) /\ [][IssueSetsExpiry]_vars

\* an unused code is presented exactly at its expiry, and refused
C11_Witness ==
    \E p \in Procs :
        /\ Done(p, "check-otp") /\ resp[p].status = 400
        /\ resp[p].error = "invalid or expired code"
        /\ \E i \in 1..Len(otp_code) :
              /\ otp_code[i].phone = req[p].phone /\ otp_code[i].code = req[p].code
              /\ ~otp_code[i].used
              /\ otp_code[i].expires_at = loc[p].checkTime

(***************************************************************************)
(* C12. The OtpCodes of a phone are valid independently of each other:     *)
(* a send-otp leaves every record that existed when it was called as it    *)
(* was; a successful VerifyCode marks the one record it selected and       *)
(* changes no other; and a VerifyCode presenting a phone and code for      *)
(* which some record is unused and unexpired succeeds (unless the store    *)
(* fails), whatever other codes were issued or verified for that phone.    *)
(***************************************************************************)
C12_CodesAreIndependent ==
    \A p \in Procs :
        /\ req[p].kind = "send-otp" =>
              /\ Len(preOtp) <= Len(otp_code)
              /\ \A i \in 1..Len(preOtp) : otp_code[i] = preOtp[i]
        /\ (Done(p, "check-otp") /\ resp[p].status = 200) =>
              /\ Consumed = {loc[p].row}
              /\ SameButUsed(preOtp, otp_code)
        /\ (Done(p, "check-otp") /\ loc[p].queries >= 1 /\ resp[p].status # 500) =>
              \A i \in 1..Len(preOtp) :
                  ( /\ preOtp[i].phone = req[p].phone /\ preOtp[i].code = req[p].code
                    /\ ~preOtp[i].used /\ preOtp[i].expires_at > loc[p].checkTime ) =>
                      resp[p].status = 200

\* two codes were outstanding for one phone; the newer one was verified, and
\* then the older one, with a different code, is verified as well
C12_Witness ==
    \E p \in Procs :
        /\ Done(p, "check-otp") /\ resp[p].status = 200
        /\ \E j \in 1..Len(otp_code) :
              /\ j > loc[p].row
              /\ otp_code[j].phone = req[p].phone
              /\ otp_code[j].code # req[p].code
              /\ preOtp[j].used /\ auth[j] = 1

(***************************************************************************)
(* C13. A request that lacks a required field (send-otp without phone,     *)
(* check-otp without phone or code, message without buyerId or message)    *)
(* is answered 400 with the endpoint's message on receipt: its handler     *)
(* never reaches an await, so it makes no query and no delivery attempt,   *)
(* and buyer, otp_code and saved_search are as they were.                  *)
(***************************************************************************)
LacksField(r) ==
    \/ r.kind = "send-otp" /\ r.phone = Missing
    \/ r.kind = "check-otp" /\ (r.phone = Missing \/ r.code = NoText)
    \/ r.kind = "message" /\ (r.buyerId = 0 \/ r.message = NoText)

RequiredMessage(kind) ==
    CASE kind = "send-otp" -> "phone required"
      [] kind = "check-otp" -> "phone and code required"
      [] kind = "message" -> "buyerId and message required"

C13_MissingFieldTouchesNothing ==
    \A p \in Procs :
        LacksField(req[p]) =>
            /\ pc[p] = "done"
            /\ resp[p].status = 400
            /\ resp[p].error = RequiredMessage(req[p].kind)
            /\ loc[p] = NoLoc
            /\ <<buyer, otp_code, saved_search>> = pre

\* a message without buyerId is refused while a SavedSearch is stored
C13_Witness ==
    \E p \in Procs :
        /\ Done(p, "message") /\ resp[p].status = 400
        /\ req[p].buyerId = 0 /\ req[p].message # NoText
        /\ saved_search # <<>>

(***************************************************************************)
(* C14. Every code the code generation produces is the decimal text of an  *)
(* integer in [100000, 999999]: six digits, the first not 0, for the       *)
(* random values of a grid over [0, 1) and for the largest doubles below 1.*)
(***************************************************************************)
C14_CodeHasSixDigits ==
    \A i \in 1..Len(out) :
        /\ Len(out[i]) = 6
        /\ \A j \in 1..Len(out[i]) : IsDigit(out[i][j])
        /\ out[i][1] # "0"
        /\ ToNumber(out[i]) >= 100000
        /\ ToNumber(out[i]) <= 999999

\* the largest double below 1 gives 999999
C14_Witness ==
    /\ arg \in RandomValues /\ arg.top /\ arg.n = 1
    /\ out = << <<"9", "9", "9", "9", "9", "9">> >>

(***************************************************************************)
(* C15. naiveExtractCriteria depends on the text alone: every call on a    *)
(* text returns what the first call returned.  Its result has a key        *)
(* exactly when the pattern of that key matches somewhere in the text      *)
(* (price_min and price_max together), every value it has is a number or,  *)
(* for zones, a list of one non-empty name, never an empty placeholder,    *)
(* and a text that matches no pattern gives the object without keys.       *)
(***************************************************************************)
Matches(at) == \E i \in DOMAIN at : at[i] # NoMatch

C15_ExtractionIsAFunctionOfText ==
    \A n \in 1..Len(out) :
        LET c == out[n]
            price == Matches([i \in 1..Len(arg) |-> PriceAt(arg, i)])
            beds == Matches([i \in 1..Len(arg) |-> BedAt(arg, i)])
            baths == Matches([i \in 1..Len(arg) |-> BathAt(arg, i)])
            zone == Matches([i \in 1..Len(arg) |-> ZoneAt(arg, i)])
        IN  /\ c = out[1]
            /\ DOMAIN c \subseteq {"price_min", "price_max", "beds_min", "baths_min", "zones"}
            /\ "price_min" \in DOMAIN c <=> price
            /\ "price_max" \in DOMAIN c <=> price
            /\ "beds_min" \in DOMAIN c <=> beds
            /\ "baths_min" \in DOMAIN c <=> baths
            /\ "zones" \in DOMAIN c <=> zone
            /\ \A k \in DOMAIN c \ {"zones"} : c[k] \in Nat
            /\ "zones" \in DOMAIN c => Len(c["zones"]) = 1 /\ c["zones"][1] # <<>>
            /\ ~(price \/ beds \/ baths \/ zone) => DOMAIN c = {}

\* the message of the scenario, parsed twice: four keys, and no baths_min
C15_Witness ==
    /\ arg = TxtScenario
    /\ Len(out) = 2
    /\ out[2] = [price_min |-> 250000, price_max |-> 450000, beds_min |-> 3,
                 zones |-> <<TxtSterlington>>]

(***************************************************************************)
(* C20. When a text names a zone of the vocabulary, in any letter case,    *)
(* the extracted zones are a list of one name, the name as the vocabulary  *)
(* spells it, of the zone named first in the text.                         *)
(***************************************************************************)
ZoneVocabulary ==
    << <<"S", "t", "e", "r", "l", "i", "n", "g", "t", "o", "n">>,
       <<"W", "e", "s", "t", " ", "M", "o", "n", "r", "o", "e">>,
       <<"M", "o", "n", "r", "o", "e">> >>

FoldText(t) == [i \in 1..Len(t) |-> Fold(t[i])]

C20_ZoneIsCanonical ==
    \A n \in 1..Len(out) :
        Matches([i \in 1..Len(arg) |-> ZoneAt(arg, i)]) =>
            /\ "zones" \in DOMAIN out[n]
            /\ \E z \in 1..Len(ZoneVocabulary) :
                  /\ out[n]["zones"] = <<ZoneVocabulary[z]>>
                  /\ FoldText(ZoneVocabulary[z]) =
                        FoldText(FirstMatch([i \in 1..Len(arg) |-> ZoneAt(arg, i)])[1])

(***************************************************************************)
(* C16. With VerifyCode calls overlapping, the select and the update of    *)
(* used are separate steps: a call goes on to succeed only with a record   *)
(* its select read as unused, used is written by the update of a call      *)
(* that selected the record and by nothing else, and nothing tests used    *)
(* again before the call answers 200.  So two calls that both select the   *)
(* one matching record before either marks it both succeed.                *)
(***************************************************************************)
SelectReadsUnused ==
    \A p \in Procs :
        (pc[p] = "co_select" /\ pc'[p] = "co_mark") =>
            /\ loc'[p].row \in 1..Len(otp_code)
            /\ otp_code[loc'[p].row].phone = req[p].phone
            /\ otp_code[loc'[p].row].code = req[p].code
            /\ ~otp_code[loc'[p].row].used

UsedWrittenByMark ==
    \A i \in 1..Len(otp_code) :
        (~otp_code[i].used /\ otp_code'[i].used) =>
            \E p \in Procs : pc[p] = "co_mark" /\ pc'[p] = "co_upsert" /\ loc[p].row = i

SuccessAfterSelectAlone ==
    \A p \in Procs :
        (pc[p] = "co_mark" /\ pc'[p] = "co_upsert") => otp_code' = MarkUsed(otp_code, loc[p].row)

C16_VerifyIsNotExactlyOnce ==
    [][SelectReadsUnused /\ UsedWrittenByMark /\ SuccessAfterSelectAlone]_vars

\* both calls have answered 200 for the one record of the phone and code
C16_Witness ==
    \E p, q \in Procs :
        /\ p # q
        /\ Done(p, "check-otp") /\ resp[p].status = 200
        /\ Done(q, "check-otp") /\ resp[q].status = 200
        /\ req[p].phone = req[q].phone /\ req[p].code = req[q].code
        /\ loc[p].row = loc[q].row
        /\ auth[loc[p].row] = 2
        /\ Cardinality({i \in 1..Len(otp_code) :
                           otp_code[i].phone = req[p].phone /\
                           otp_code[i].code = req[p].code}) = 1

(***************************************************************************)
(* C17. With message calls overlapping, a call for a buyer that has a      *)
(* SavedSearch merges what it extracted over the criteria its select       *)
(* read, and its update writes that merge and reports it as saved          *)
(* whatever the row holds by then (no version check).  So a call can       *)
(* overwrite the row without a key another call extracted, wrote and       *)
(* reported as saved.                                                      *)
(***************************************************************************)
MergesWhatSelectRead ==
    \A p \in Procs :
        (pc[p] = "am_select" /\ pc'[p] = "am_update") =>
            LET read == saved_search[loc'[p].row].criteria
                mine == loc[p].extracted
                merged == loc'[p].merged
            IN  /\ saved_search[loc'[p].row].buyer_id = req[p].buyerId
                /\ DOMAIN merged = DOMAIN read \cup DOMAIN mine
                /\ \A k \in DOMAIN merged :
                      merged[k] = IF k \in DOMAIN mine THEN mine[k] ELSE read[k]

UpdateWritesTheMerge ==
    \A p \in Procs :
        (pc[p] = "am_update" /\ pc'[p] = "done" /\ resp'[p].status = 200) =>
            /\ saved_search' = [saved_search EXCEPT ![loc[p].row].criteria = loc[p].merged]
            /\ resp'[p].savedSearch = <<[id |-> loc[p].row, criteria |-> loc[p].merged]>>

C17_UpdateCanBeLost ==
    [][MergesWhatSelectRead /\ UpdateWritesTheMerge]_vars

\* two calls updated the buyer's row; the row lacks a key that one of them
\* extracted and reported as saved
C17_Witness ==
    \E p, q \in Procs :
        /\ p # q
        /\ Done(p, "message") /\ resp[p].status = 200
        /\ Done(q, "message") /\ resp[q].status = 200
        /\ req[p].buyerId = req[q].buyerId
        /\ loc[p].row >= 1 /\ loc[p].row = loc[q].row
        /\ \E k \in DOMAIN loc[p].extracted :
              /\ k \in DOMAIN resp[p].savedSearch[1].criteria
              /\ k \notin DOMAIN saved_search[loc[p].row].criteria

(***************************************************************************)
(* C18. With message calls overlapping, a call inserts a SavedSearch only  *)
(* when its select found none for the buyer, and nothing tests that again  *)
(* before the insert: a buyer has at most as many SavedSearch records as   *)
(* calls can be in flight together, and two first-time calls that both     *)
(* select before either inserts leave the buyer with two.                  *)
(***************************************************************************)
InsertsAfterSeeingNone ==
    \A p \in Procs :
        (pc[p] = "am_select" /\ pc'[p] = "am_insert") =>
            SearchesOf(saved_search, req[p].buyerId) = {}

SearchesWithinCallsInFlight ==
    \A b \in BuyerIdInputs : Cardinality(SearchesOf(saved_search, b)) <= NProc

C18_TwoSearchesForOneBuyer ==
    [](SearchesWithinCallsInFlight) /\ [][InsertsAfterSeeingNone]_vars

\* two first-time calls have both answered 200, and the buyer has two records
C18_Witness ==
    \E p, q \in Procs :
        /\ p # q
        /\ Done(p, "message") /\ resp[p].status = 200 /\ HasKeys(loc[p].extracted)
        /\ Done(q, "message") /\ resp[q].status = 200 /\ HasKeys(loc[q].extracted)
        /\ req[p].buyerId = req[q].buyerId
        /\ loc[p].row = 0 /\ loc[q].row = 0
        /\ Cardinality(SearchesOf(saved_search, req[p].buyerId)) = 2

(***************************************************************************)
(* C19. The OtpCode is inserted before delivery is attempted, and a        *)
(* failed delivery leaves it stored: after a send-otp that ended in 500    *)
(* at the delivery step, the record it inserted is there with its phone    *)
(* and code, used only if a later VerifyCode marked it, and a later        *)
(* VerifyCode that presents the phone and code while the record is unused  *)
(* and before its expiry succeeds (unless the store fails).                *)
(***************************************************************************)
DeliveryFailed(p) == Done(p, "send-otp") /\ loc[p].failedAt = "so_sms"

C19_FailedDeliveryKeepsCode ==
    \A p \in Procs :
        DeliveryFailed(p) =>
            /\ resp[p].status = 500
            /\ loc[p].queries = 2
            /\ loc[p].row \in 1..Len(otp_code)
            /\ otp_code[loc[p].row].phone = req[p].phone
            /\ otp_code[loc[p].row].code = loc[p].code
            /\ otp_code[loc[p].row].used =>
                  \E q \in Procs :
                      /\ q > p /\ req[q].kind = "check-otp"
                      /\ loc[q].row = loc[p].row
                      /\ pc[q] \in {"co_upsert", "co_verify", "done"}
            /\ \A q \in Procs :
                  ( /\ q = NProc - left /\ q > p
                    /\ Done(q, "check-otp") /\ resp[q].status # 500
                    /\ req[q].phone = req[p].phone /\ req[q].code = loc[p].code
                    /\ ~preOtp[loc[p].row].used
                    /\ loc[q].checkTime < otp_code[loc[p].row].expires_at ) =>
                      resp[q].status = 200

\* the code of a send-otp whose delivery failed is verified
C19_Witness ==
    \E p, q \in Procs :
        /\ DeliveryFailed(p)
        /\ q > p
        /\ Done(q, "check-otp") /\ resp[q].status = 200
        /\ loc[q].row = loc[p].row
        /\ req[q].code = loc[p].code

(***************************************************************************)
(* C21. OtpCode records are append-only except for consumption: while a    *)
(* request is served no record is deleted, phone, code and expiry of a     *)
(* record never change and used never returns to false; a send-otp         *)
(* changes no record that existed and, when it answers 200, has added      *)
(* exactly one record, unused; a check-otp adds none, and a record goes    *)
(* from unused to used only in a check-otp that answers 200.               *)
(***************************************************************************)
OtpRecordsKept ==
    /\ Len(preOtp) <= Len(otp_code)
    /\ \A i \in 1..Len(preOtp) :
          /\ otp_code[i].phone = preOtp[i].phone
          /\ otp_code[i].code = preOtp[i].code
          /\ otp_code[i].expires_at = preOtp[i].expires_at
          /\ preOtp[i].used => otp_code[i].used

IssueAddsOneUnused ==
    \A p \in Procs :
        req[p].kind = "send-otp" =>
            /\ Len(otp_code) <= Len(preOtp) + 1
            /\ \A i \in 1..Len(preOtp) : otp_code[i] = preOtp[i]
            /\ \A i \in (Len(preOtp) + 1)..Len(otp_code) :
                  ~otp_code[i].used /\ otp_code[i].phone = req[p].phone
            /\ (Done(p, "send-otp") /\ resp[p].status = 200) =>
                  Len(otp_code) = Len(preOtp) + 1

ConsumedBySuccessAlone ==
    \A p \in Procs :
        req[p].kind = "check-otp" =>
            /\ Len(otp_code) = Len(preOtp)
            /\ (Done(p, "check-otp") /\ Consumed # {}) => resp[p].status = 200

C21_OtpCodesAppendOnly ==
    OtpRecordsKept /\ IssueAddsOneUnused /\ ConsumedBySuccessAlone

(***************************************************************************)
(* C22. Whenever no check-otp is in progress, every OtpCode with used=true *)
(* belongs to a phone whose Buyer has phone_verified=true, also after a    *)
(* check-otp that ended in 500.                                            *)
(***************************************************************************)
VerifyInProgress ==
    \E p \in Procs : pc[p] \in {"co_select", "co_mark", "co_upsert", "co_verify"}

C22_ConsumedImpliesVerified ==
    ~VerifyInProgress =>
        \A i \in 1..Len(otp_code) :
            otp_code[i].used =>
                \E b \in 1..Len(buyer) :
                    buyer[b].phone = otp_code[i].phone /\ buyer[b].phone_verified

(***************************************************************************)
(* C23. Every SavedSearch belongs to a Buyer that exists and has           *)
(* phone_verified=true.                                                    *)
(***************************************************************************)
C23_SearchesOfVerifiedBuyers ==
    \A i \in 1..Len(saved_search) :
        \E b \in 1..Len(buyer) :
            buyer[b].id = saved_search[i].buyer_id /\ buyer[b].phone_verified

====
